---- MODULE Spec2Model ----
(***************************************************************************)
(* Model of maxwell/actions.py: the edit-action classes (sentinels,        *)
(* conditional edits, generative edits), the dataclass machinery they are  *)
(* declared with (frozen=True, eq=True) and the projection                 *)
(* conditional_counterpart().                                              *)
(*                                                                         *)
(* Objects live in a heap: heap[i] is the value of the object with         *)
(* identity i.  A value is a record [cls, fields], fields being the tuple  *)
(* of the dataclass fields in declaration order, which is what the         *)
(* generated __eq__ and __hash__ work on.                                  *)
(***************************************************************************)
EXTENDS Integers, Sequences, FiniteSets, TLC

VARIABLES heap, result

vars == <<heap, result>>

\* ------------------------------------------------------------------ bounds
NumSymbols == 2

MaxObjs == 2

\* The symbol atoms payloads are drawn from (old / new are typed Any).
Alphabet == <<"a", "b", "c", "d">>

Symbols == {Alphabet[i] : i \in 1..NumSymbols}

\* ------------------------------------------------------- class hierarchy
\* The method resolution order of every concrete class.
Mro(cls) ==
    CASE cls = "Start"           -> <<"Start", "Edit">>
      [] cls = "End"             -> <<"End", "Edit">>
      [] cls = "ConditionalSub"  -> <<"ConditionalSub", "ConditionalEdit", "Edit">>
      [] cls = "ConditionalCopy" -> <<"ConditionalCopy", "ConditionalEdit", "Edit">>
      [] cls = "ConditionalDel"  -> <<"ConditionalDel", "ConditionalEdit", "Edit">>
      [] cls = "ConditionalIns"  -> <<"ConditionalIns", "ConditionalEdit", "Edit">>
      [] cls = "Sub"             -> <<"Sub", "GenerativeEdit", "Edit">>
      [] cls = "Copy"            -> <<"Copy", "Sub", "GenerativeEdit", "Edit">>
      [] cls = "Del"             -> <<"Del", "GenerativeEdit", "Edit">>
      [] cls = "Ins"             -> <<"Ins", "GenerativeEdit", "Edit">>

Sentinels == {"Start", "End"}

ConditionalClasses ==
    {"ConditionalSub", "ConditionalCopy", "ConditionalDel", "ConditionalIns"}

GenerativeClasses == {"Sub", "Copy", "Del", "Ins"}

Classes == Sentinels \cup ConditionalClasses \cup GenerativeClasses

IsInstance(o, base) == \E k \in 1..Len(Mro(o.cls)) : Mro(o.cls)[k] = base

\* The dataclass fields of a class, in declaration order.
FieldNames(cls) ==
    CASE cls = "Start"           -> <<"bos">>
      [] cls = "End"             -> <<"eos">>
      [] cls = "ConditionalSub"  -> <<"new">>
      [] cls = "ConditionalCopy" -> <<>>
      [] cls = "ConditionalDel"  -> <<>>
      [] cls = "ConditionalIns"  -> <<"new">>
      [] cls = "Sub"             -> <<"old", "new">>
      [] cls = "Copy"            -> <<"old", "new">>
      [] cls = "Del"             -> <<"old">>
      [] cls = "Ins"             -> <<"new">>

\* The argument tuples the generated __init__ of a class accepts: one
\* argument per field, the sentinels' single field having a default.
InitArgs(cls) ==
    CASE cls = "Start" -> {<<"<BOS>">>} \cup {<<s>> : s \in Symbols}
      [] cls = "End"   -> {<<"<EOS>">>} \cup {<<s>> : s \in Symbols}
      [] OTHER         -> IF Len(FieldNames(cls)) = 0 THEN {<<>>}
                          ELSE IF Len(FieldNames(cls)) = 1
                               THEN {<<s>> : s \in Symbols}
                               ELSE {<<s, t>> : s \in Symbols, t \in Symbols}

HasField(o, name) ==
    \E k \in 1..Len(FieldNames(o.cls)) : FieldNames(o.cls)[k] = name

GetAttr(o, name) ==
    o.fields[CHOOSE k \in 1..Len(FieldNames(o.cls)) : FieldNames(o.cls)[k] = name]

\* ------------------------------------------------------------ construction
\* Copy without its __post_init__ check.
Copy_post_init_unchecked(self) == ""

\* Copy.__post_init__: the name of the exception it raises, "" when none.
Copy_post_init(self) ==
    IF GetAttr(self, "old") # GetAttr(self, "new") THEN "ValueError" ELSE ""

\* __post_init__ as the generated __init__ finds it on the class.
PostInit(self) ==
    IF IsInstance(self, "Copy") THEN Copy_post_init(self) ELSE ""

NoResult ==
    [op |-> "", cls |-> "", args |-> <<>>, a |-> 0, b |-> 0,
     obj |-> 0, num |-> 0, val |-> "", exc |-> ""]

Init ==
    /\ heap = <<>>
    /\ result = NoResult

\* cls(*args): the generated __init__ stores the fields, then runs
\* __post_init__; an exception leaves no object behind.
Construct(cls, args) ==
    /\ Len(heap) < MaxObjs
    /\ LET self == [cls |-> cls, fields |-> args]
           exc  == PostInit(self)
       IN  IF exc # ""
           THEN /\ heap' = heap
                /\ result' = [NoResult EXCEPT !.op = "init", !.cls = cls,
                                              !.args = args, !.exc = exc]
           ELSE /\ heap' = Append(heap, self)
                /\ result' = [NoResult EXCEPT !.op = "init", !.cls = cls,
                                              !.args = args,
                                              !.obj = Len(heap) + 1]

\* ---------------------------------------------------- method resolution
\* The classes whose body defines conditional_counterpart.
DefinesCounterpart ==
    {"ConditionalEdit", "GenerativeEdit", "Sub", "Copy", "Del", "Ins"}

\* The class whose conditional_counterpart a call on an instance of cls
\* runs: the first class of the MRO defining it, "" when there is none.
RECURSIVE FirstDefining(_, _)
FirstDefining(mro, k) ==
    IF k > Len(mro) THEN ""
    ELSE IF mro[k] \in DefinesCounterpart THEN mro[k]
    ELSE FirstDefining(mro, k + 1)

Resolve(cls) == FirstDefining(Mro(cls), 1)

\* A call's outcome: the exception raised ("" when none), whether the
\* returned object is the receiver itself, and the returned value.
Returned(value) == [exc |-> "", same |-> FALSE, value |-> value]

ReturnedSelf(self) == [exc |-> "", same |-> TRUE, value |-> self]

Raised(exc, self) == [exc |-> exc, same |-> FALSE, value |-> self]

\* ConditionalEdit leaving the method abstract, as GenerativeEdit does.
ConditionalEdit_abstract(self) == Raised("NotImplementedError", self)

ConditionalEdit_conditional_counterpart(self) == ReturnedSelf(self)

GenerativeEdit_conditional_counterpart(self) ==
    Raised("NotImplementedError", self)

\* Sub projecting its old symbol instead of its new one.
Sub_keeps_old(self) ==
    Returned([cls |-> "ConditionalSub", fields |-> <<GetAttr(self, "old")>>])

Sub_conditional_counterpart(self) ==
    Returned([cls |-> "ConditionalSub", fields |-> <<GetAttr(self, "new")>>])

\* Copy without an override, inheriting the projection of Sub.
Copy_inherits_Sub(self) == Sub_conditional_counterpart(self)

Copy_conditional_counterpart(self) ==
    Returned([cls |-> "ConditionalCopy", fields |-> <<>>])

\* Del without an override, left with the abstract method.
Del_not_overridden(self) == GenerativeEdit_conditional_counterpart(self)

Del_conditional_counterpart(self) ==
    Returned([cls |-> "ConditionalDel", fields |-> <<>>])

Ins_conditional_counterpart(self) ==
    Returned([cls |-> "ConditionalIns", fields |-> <<GetAttr(self, "new")>>])

\* self.conditional_counterpart() on any object.
conditional_counterpart(self) ==
    LET owner == Resolve(self.cls)
    IN  CASE owner = "ConditionalEdit" -> ConditionalEdit_conditional_counterpart(self)
          [] owner = "GenerativeEdit"  -> GenerativeEdit_conditional_counterpart(self)
          [] owner = "Sub"             -> Sub_conditional_counterpart(self)
          [] owner = "Copy"            -> Copy_conditional_counterpart(self)
          [] owner = "Del"             -> Del_conditional_counterpart(self)
          [] owner = "Ins"             -> Ins_conditional_counterpart(self)
          [] OTHER                     -> Raised("AttributeError", self)

\* --------------------------------------------- generated dataclass methods
\* eq=False: no generated __eq__, every comparison falls back to identity.
DataclassEq_missing(self, other) == "NotImplemented"

\* An __eq__ comparing the field tuples without looking at the classes.
DataclassEq_fields_only(self, other) ==
    IF self.fields = other.fields THEN "True" ELSE "False"

\* An __eq__ accepting any instance of the receiver's class, subclasses too.
DataclassEq_isinstance(self, other) ==
    IF IsInstance(other, self.cls)
    THEN IF self.fields = other.fields THEN "True" ELSE "False"
    ELSE "NotImplemented"

\* eq=True: the generated __eq__ compares the field tuples of two objects
\* of the very same class and is NotImplemented otherwise.
DataclassEq(self, other) ==
    IF other.cls = self.cls
    THEN IF self.fields = other.fields THEN "True" ELSE "False"
    ELSE "NotImplemented"

\* a == b on the objects i and j of the heap h: the __eq__ of a proper
\* subclass on the right is tried first, then the other operand's, and two
\* NotImplemented fall back to identity.
PyEq(h, i, j) ==
    LET a == h[i]
        b == h[j]
        swap   == b.cls # a.cls /\ IsInstance(b, a.cls)
        first  == IF swap THEN DataclassEq(b, a) ELSE DataclassEq(a, b)
        second == IF swap THEN DataclassEq(a, b) ELSE DataclassEq(b, a)
    IN  IF first # "NotImplemented" THEN first = "True"
        ELSE IF a.cls # b.cls /\ second # "NotImplemented" THEN second = "True"
        ELSE i = j

\* The hash of a symbol atom and of a tuple of them: a function of the
\* atoms that is not injective, as a hash is not.
AtomHash(s) ==
    IF \E k \in 1..Len(Alphabet) : Alphabet[k] = s
    THEN CHOOSE k \in 1..Len(Alphabet) : Alphabet[k] = s
    ELSE Len(Alphabet) + 1

RECURSIVE TupleHash(_)
TupleHash(t) ==
    IF t = <<>> THEN 0 ELSE AtomHash(Head(t)) + TupleHash(Tail(t))

\* frozen=True with eq=True: the generated __hash__ hashes the field tuple.
DataclassHash(self) == TupleHash(self.fields)

\* The generated __repr__: Class(field='value', ...).
RECURSIVE FieldsRepr(_, _, _)
FieldsRepr(names, values, k) ==
    IF k > Len(names) THEN ""
    ELSE (IF k > 1 THEN ", " ELSE "") \o names[k] \o "='" \o values[k] \o "'"
         \o FieldsRepr(names, values, k + 1)

DataclassRepr(self) ==
    self.cls \o "(" \o FieldsRepr(FieldNames(self.cls), self.fields, 1) \o ")"

Start_repr(self) == GetAttr(self, "bos")

End_repr(self) == GetAttr(self, "eos")

\* repr(self), which str(self) falls back to: a __repr__ written in the
\* class body is kept by the decorator.
Repr(self) ==
    CASE self.cls = "Start" -> Start_repr(self)
      [] self.cls = "End"   -> End_repr(self)
      [] OTHER              -> DataclassRepr(self)

\* frozen=False.
NotFrozen(cls) == FALSE

\* The decorator's frozen argument, True on every class of the module.
Frozen(cls) == cls \in Classes

RECURSIVE ReplaceField(_, _, _, _)
ReplaceField(names, values, name, value) ==
    IF names = <<>> THEN <<>>
    ELSE <<IF Head(names) = name THEN value ELSE Head(values)>>
         \o ReplaceField(Tail(names), Tail(values), name, value)

\* setattr(self, name, value) / delattr(self, name): the frozen class's
\* generated __setattr__ and __delattr__ raise FrozenInstanceError; without
\* them the instance attribute is rebound (or removed).
DataclassSetattr(self, name, value) ==
    IF Frozen(self.cls)
    THEN Raised("FrozenInstanceError", self)
    ELSE Returned([self EXCEPT !.fields =
                      ReplaceField(FieldNames(self.cls), self.fields, name, value)])

DataclassDelattr(self, name) ==
    IF Frozen(self.cls)
    THEN Raised("FrozenInstanceError", self)
    ELSE IF HasField(self, name)
         THEN Returned([self EXCEPT !.fields =
                  ReplaceField(FieldNames(self.cls), self.fields, name, "<unset>")])
         ELSE Raised("AttributeError", self)

\* set.add on a set of heap objects: an object is a new member unless a
\* member with the same hash is the same object or compares equal.
SetAdd(h, members, i) ==
    IF \E m \in members :
          /\ DataclassHash(h[m]) = DataclassHash(h[i])
          /\ (m = i \/ PyEq(h, m, i))
    THEN members
    ELSE members \cup {i}

\* ---------------------------------------------------------------- actions
Ids == 1..Len(heap)

New == \E cls \in Classes : \E args \in InitArgs(cls) : Construct(cls, args)

\* heap[i].conditional_counterpart(); a freshly built counterpart is a new
\* object of the heap.
Counterpart(i) ==
    LET r == conditional_counterpart(heap[i])
    IN  IF r.exc # ""
        THEN /\ heap' = heap
             /\ result' = [NoResult EXCEPT !.op = "conditional_counterpart",
                                           !.a = i, !.exc = r.exc]
        ELSE IF r.same
        THEN /\ heap' = heap
             /\ result' = [NoResult EXCEPT !.op = "conditional_counterpart",
                                           !.a = i, !.obj = i]
        ELSE /\ Len(heap) < MaxObjs
             /\ heap' = Append(heap, r.value)
             /\ result' = [NoResult EXCEPT !.op = "conditional_counterpart",
                                           !.a = i, !.obj = Len(heap) + 1]

\* heap[i].conditional_counterpart() == heap[j].conditional_counterpart(),
\* the two counterparts being temporaries.
CounterpartEq(i, j) ==
    LET ri  == conditional_counterpart(heap[i])
        rj  == conditional_counterpart(heap[j])
        tmp == heap \o <<ri.value, rj.value>>
        p   == IF ri.same THEN i ELSE Len(heap) + 1
        q   == IF rj.same THEN j ELSE Len(heap) + 2
    IN  /\ heap' = heap
        /\ result' =
             IF ri.exc # ""
             THEN [NoResult EXCEPT !.op = "counterpart_eq", !.a = i, !.b = j,
                                   !.exc = ri.exc]
             ELSE IF rj.exc # ""
             THEN [NoResult EXCEPT !.op = "counterpart_eq", !.a = i, !.b = j,
                                   !.exc = rj.exc]
             ELSE [NoResult EXCEPT !.op = "counterpart_eq", !.a = i, !.b = j,
                                   !.val = IF PyEq(tmp, p, q) THEN "True"
                                           ELSE "False"]

\* heap[i] == heap[j]
Eq(i, j) ==
    /\ heap' = heap
    /\ result' = [NoResult EXCEPT !.op = "eq", !.a = i, !.b = j,
                                  !.val = IF PyEq(heap, i, j) THEN "True"
                                          ELSE "False"]

\* hash(heap[i])
Hash(i) ==
    /\ heap' = heap
    /\ result' = [NoResult EXCEPT !.op = "hash", !.a = i,
                                  !.num = DataclassHash(heap[i])]

\* str(heap[i])
Str(i) ==
    /\ heap' = heap
    /\ result' = [NoResult EXCEPT !.op = "str", !.a = i,
                                  !.val = Repr(heap[i])]

\* len({heap[i], heap[j]})
SetLen(i, j) ==
    /\ heap' = heap
    /\ result' = [NoResult EXCEPT !.op = "set_len", !.a = i, !.b = j,
                     !.num = Cardinality(SetAdd(heap, SetAdd(heap, {}, i), j))]

\* The attribute names tried on an object: its dataclass fields.
AttrNames(o) == {FieldNames(o.cls)[k] : k \in 1..Len(FieldNames(o.cls))}

\* heap[i].name = value
SetAttr(i, name, value) ==
    LET r == DataclassSetattr(heap[i], name, value)
    IN  /\ heap' = IF r.exc # "" THEN heap ELSE [heap EXCEPT ![i] = r.value]
        /\ result' = [NoResult EXCEPT !.op = "setattr", !.a = i,
                                      !.val = name, !.exc = r.exc]

\* del heap[i].name
DelAttr(i, name) ==
    LET r == DataclassDelattr(heap[i], name)
    IN  /\ heap' = IF r.exc # "" THEN heap ELSE [heap EXCEPT ![i] = r.value]
        /\ result' = [NoResult EXCEPT !.op = "delattr", !.a = i,
                                      !.val = name, !.exc = r.exc]

Project == \E i \in Ids : Counterpart(i)

ProjectEq == \E i \in Ids, j \in Ids : CounterpartEq(i, j)

Compare == \E i \in Ids, j \in Ids : Eq(i, j)

HashOf == \E i \in Ids : Hash(i)

Render == \E i \in Ids : Str(i)

Dedup == \E i \in Ids, j \in Ids : SetLen(i, j)

Assign == \E i \in Ids : \E name \in AttrNames(heap[i]) :
              \E value \in Symbols : SetAttr(i, name, value)

Delete == \E i \in Ids : \E name \in AttrNames(heap[i]) : DelAttr(i, name)

Next ==
    \/ New
    \/ Project
    \/ ProjectEq
    \/ Compare
    \/ HashOf
    \/ Render
    \/ Dedup
    \/ Assign
    \/ Delete

Spec == Init /\ [][Next]_vars

\* The operations the claims are checked under, grouped by what they call.
NextProject == New \/ Project \/ ProjectEq

SpecProject == Init /\ [][NextProject]_vars

NextCompare == New \/ Compare \/ Project

SpecCompare == Init /\ [][NextCompare]_vars

NextHash == New \/ HashOf \/ Dedup

SpecHash == Init /\ [][NextHash]_vars

NextRender == New \/ Compare \/ Render

SpecRender == Init /\ [][NextRender]_vars

NextFrozen == New \/ Assign \/ Delete \/ Project

SpecFrozen == Init /\ [][NextFrozen]_vars

\* ----------------------------------------------------------------- claims
Obj(cls, fields) == [cls |-> cls, fields |-> fields]

IsGenerative(o) == o.cls \in GenerativeClasses

IsConditional(o) == o.cls \in ConditionalClasses

IsSentinel(o) == o.cls \in Sentinels

Kind(o) ==
    IF IsSentinel(o) THEN "sentinel"
    ELSE IF IsConditional(o) THEN "conditional" ELSE "generative"

SameValue(i, j) == heap[i].cls = heap[j].cls /\ heap[i].fields = heap[j].fields

\* The fixed mapping table of the specification.
MappingTable(e) ==
    CASE e.cls = "Sub"  -> Obj("ConditionalSub", <<e.fields[2]>>)
      [] e.cls = "Copy" -> Obj("ConditionalCopy", <<>>)
      [] e.cls = "Del"  -> Obj("ConditionalDel", <<>>)
      [] e.cls = "Ins"  -> Obj("ConditionalIns", <<e.fields[1]>>)

Projected == result.op = "conditional_counterpart"

ProjectedPair == result.op = "counterpart_eq"

\* C1: conditional_counterpart() on a constructed generative edit never
\* raises and returns a new object that is exactly the conditional edit of
\* the mapping table (Sub -> ConditionalSub(new), Copy -> ConditionalCopy(),
\* Del -> ConditionalDel(), Ins -> ConditionalIns(new)).
C1_CounterpartTable ==
    /\ (Projected /\ IsGenerative(heap[result.a])) =>
          /\ result.exc = ""
          /\ result.obj \in Ids
          /\ result.obj # result.a
          /\ heap[result.obj] = MappingTable(heap[result.a])
    /\ (ProjectedPair /\ IsGenerative(heap[result.a])
                      /\ IsGenerative(heap[result.b])) => result.exc = ""

C1_Witness ==
    /\ Projected
    /\ heap[result.a] = Obj("Copy", <<"a", "a">>)
    /\ result.obj \in Ids
    /\ heap[result.obj] = Obj("ConditionalCopy", <<>>)

\* C2: Copy(old, new) with old != new raises ValueError and leaves no
\* object; with old == new it succeeds; so every Copy of the heap has
\* old == new.
C2_CopyInvariant ==
    /\ \A i \in Ids : heap[i].cls = "Copy" => heap[i].fields[1] = heap[i].fields[2]
    /\ (result.op = "init" /\ result.cls = "Copy") =>
          IF result.args[1] # result.args[2]
          THEN result.exc = "ValueError" /\ result.obj = 0
          ELSE /\ result.exc = ""
               /\ result.obj \in Ids
               /\ heap[result.obj] = Obj("Copy", result.args)

C2_Witness ==
    /\ result.op = "init"
    /\ result.cls = "Copy"
    /\ result.args = <<"a", "b">>
    /\ result.exc = "ValueError"
    /\ \E i \in Ids : heap[i] = Obj("Copy", <<"b", "b">>)

\* C3: on a conditional edit c, c.conditional_counterpart() does not raise
\* and its result compares equal to c.
C3_ConditionalIdentity ==
    (Projected /\ IsConditional(heap[result.a])) =>
        /\ result.exc = ""
        /\ result.obj \in Ids
        /\ PyEq(heap, result.obj, result.a)
        /\ PyEq(heap, result.a, result.obj)

C3_Witness ==
    /\ Projected
    /\ heap[result.a] = Obj("ConditionalSub", <<"b">>)
    /\ result.obj = result.a

\* C4 as stated: conditional_counterpart() on any constructed Edit value
\* returns a ConditionalEdit and never raises.
C4_AnyEdit ==
    Projected =>
        /\ result.exc = ""
        /\ result.obj \in Ids
        /\ IsInstance(heap[result.obj], "ConditionalEdit")

\* C4 as amended: conditional_counterpart() on any constructed generative or
\* conditional edit (any edit that is not a Start or End sentinel) returns a
\* ConditionalEdit and never raises.
C4_AnyNonSentinelEdit ==
    /\ (Projected /\ ~IsSentinel(heap[result.a])) =>
          /\ result.exc = ""
          /\ result.obj \in Ids
          /\ IsInstance(heap[result.obj], "ConditionalEdit")
    /\ (ProjectedPair /\ ~IsSentinel(heap[result.a])
                      /\ ~IsSentinel(heap[result.b])) => result.exc = ""

C4_Witness ==
    /\ ProjectedPair
    /\ IsGenerative(heap[result.a])
    /\ IsConditional(heap[result.b])
    /\ result.exc = ""

\* C5: any two Start instances are equal and every Start renders as "<BOS>";
\* any two End instances are equal and every End renders as "<EOS>"; no
\* Start equals an End.
C5_SentinelsFixed ==
    /\ (result.op = "eq" /\ IsSentinel(heap[result.a])
                         /\ IsSentinel(heap[result.b])) =>
          (result.val = "True" <=> heap[result.a].cls = heap[result.b].cls)
    /\ (result.op = "str" /\ heap[result.a].cls = "Start") => result.val = "<BOS>"
    /\ (result.op = "str" /\ heap[result.a].cls = "End") => result.val = "<EOS>"

\* C6: two independently constructed edits of the same variant with equal
\* payloads are equal, have equal hashes, and are one member of a set.
C6_StructuralEqHash ==
    /\ \A i \in Ids, j \in Ids : SameValue(i, j) => PyEq(heap, i, j)
    /\ result.op = "hash" =>
          \A j \in Ids : SameValue(result.a, j) =>
              result.num = DataclassHash(heap[j])
    /\ (result.op = "set_len" /\ SameValue(result.a, result.b)) => result.num = 1

C6_Witness ==
    /\ result.op = "set_len"
    /\ result.a # result.b
    /\ heap[result.a] = Obj("Sub", <<"a", "b">>)
    /\ heap[result.b] = Obj("Sub", <<"a", "b">>)
    /\ result.num = 1

\* C7: no conditional edit equals a generative edit and no sentinel equals a
\* non-sentinel edit, whatever the payloads.
C7_NoCrossKindEq ==
    (result.op = "eq" /\ Kind(heap[result.a]) # Kind(heap[result.b])) =>
        result.val = "False"

C7_Witness ==
    /\ result.op = "eq"
    /\ heap[result.a] = Obj("ConditionalIns", <<"a">>)
    /\ heap[result.b] = Obj("Ins", <<"a">>)
    /\ result.val = "False"

\* C8: no step changes an object of the heap: assigning or deleting a field
\* raises FrozenInstanceError and conditional_counterpart() leaves its
\* receiver as it was, so every edit keeps its payload, and with it its
\* equality class and hash.
C8_Step ==
    /\ Len(heap') >= Len(heap)
    /\ \A i \in Ids : heap'[i] = heap[i]
    /\ result'.op \in {"setattr", "delattr"} =>
          result'.exc = "FrozenInstanceError"

C8_Immutable == [][C8_Step]_vars

C8_Witness ==
    /\ result.op = "setattr"
    /\ result.val = "new"
    /\ result.exc = "FrozenInstanceError"
    /\ heap[result.a] = Obj("Sub", <<"a", "b">>)

\* C9: the counterparts of two generative edits of the same variant are
\* always equal for Copy and Del, and for Sub and Ins are equal exactly when
\* the two new symbols are equal, whatever old is.
C9_DependsOnNewOnly ==
    (ProjectedPair /\ IsGenerative(heap[result.a])
                   /\ heap[result.a].cls = heap[result.b].cls) =>
        /\ result.exc = ""
        /\ heap[result.a].cls \in {"Copy", "Del"} => result.val = "True"
        /\ heap[result.a].cls \in {"Sub", "Ins"} =>
              (result.val = "True" <=>
                  GetAttr(heap[result.a], "new") = GetAttr(heap[result.b], "new"))

C9_Witness ==
    /\ ProjectedPair
    /\ heap[result.a] = Obj("Sub", <<"a", "b">>)
    /\ heap[result.b] = Obj("Sub", <<"b", "b">>)
    /\ result.val = "True"

\* C10: Sub(a, a) is constructible, Sub(a, a) and Copy(a, a) are unequal in
\* both operand orders, Sub(a, a) projects to ConditionalSub(a) and
\* Copy(a, a) to ConditionalCopy(), and conditional edits of different
\* variants are never equal.
C10_SubCopyDistinct ==
    /\ (result.op = "init" /\ result.cls = "Sub") =>
          /\ result.exc = ""
          /\ result.obj \in Ids
          /\ heap[result.obj] = Obj("Sub", result.args)
    /\ (result.op = "eq" /\ {heap[result.a].cls, heap[result.b].cls} = {"Sub", "Copy"}) =>
          result.val = "False"
    /\ (Projected /\ heap[result.a].cls = "Sub") =>
          /\ result.obj \in Ids
          /\ heap[result.obj] = Obj("ConditionalSub", <<heap[result.a].fields[2]>>)
    /\ (Projected /\ heap[result.a].cls = "Copy") =>
          /\ result.obj \in Ids
          /\ heap[result.obj] = Obj("ConditionalCopy", <<>>)
    /\ (result.op = "eq" /\ IsConditional(heap[result.a])
                         /\ IsConditional(heap[result.b])
                         /\ heap[result.a].cls # heap[result.b].cls) =>
          result.val = "False"

C10_Witness ==
    /\ result.op = "eq"
    /\ heap[result.a] = Obj("Copy", <<"a", "a">>)
    /\ heap[result.b] = Obj("Sub", <<"a", "a">>)
    /\ result.val = "False"

====
